---- MODULE Spec2Model ----
(***************************************************************************)
(* Model of the AWS JSON router of aws-smithy-http-server                  *)
(* (rust-runtime/aws-smithy-http-server/src/proto/aws_json/router.rs).     *)
(*                                                                         *)
(* Strings and header values are sequences of bytes (numbers 0..255).     *)
(* A handler is a record [op, layers]: the operation it was built for and  *)
(* the stack of transformations applied to it so far.                     *)
(***************************************************************************)
EXTENDS Integers, Sequences, FiniteSets, TLC

VARIABLES
    router,     \* the AwsJsonRouter: [routes |-> TinyMap]
    pairs,      \* the (key, handler) sequence the router was collected from
    built,      \* the route table as it was when the router was last produced
    source,     \* the router consumed by the last layer / boxed call
    transform,  \* the transformation the last layer / boxed call applied
    depth,      \* number of layer / boxed calls so far
    last,       \* the last operation: "none", "from_iter", "layer", "boxed", "match_route"
    call,       \* the request of the last match_route call
    outcome,    \* the value the last match_route call returned
    pc,         \* per task: position inside match_route
    treq,       \* per task: the request it is dispatching
    ttarget,    \* per task: the local `target` (header value, then its text)
    tresult,    \* per task: the value its match_route call returned
    hphase,     \* is_valid_host_label: "idle", "running" or "done"
    hlabel,     \* the label the outermost call was given
    hdots,      \* the allow_dots the outermost call was given
    hstack,     \* the active calls of is_valid_host_label, outermost first
    hret,       \* the value the last finished call returned
    hdiag,      \* the errors reported to the DiagnosticCollector
    gen,        \* the DefaultSdkGenerator: "none", "alive", "dropped" or "failed"
    strong,     \* the strong count of the Arc<TempDir>
    dirExists,  \* whether the temporary directory is on disk
    sdks,       \* the GeneratedSdk values made so far
    gpc,        \* position inside generate_sdk
    attempt,    \* the local `attempt` of aws_sdk_assemble
    runs,       \* the do_aws_sdk_assemble calls of the current aws_sdk_assemble
    gresult     \* what the last aws_sdk_assemble returned

vars == <<router, pairs, built, source, transform, depth, last, call, outcome,
          pc, treq, ttarget, tresult,
          hphase, hlabel, hdots, hstack, hret, hdiag,
          gen, strong, dirExists, sdks, gpc, attempt, runs, gresult>>

seqVars == <<router, pairs, built, source, transform, depth, last, call, outcome>>
taskVars == <<pc, treq, ttarget, tresult>>
hostVars == <<hphase, hlabel, hdots, hstack, hret, hdiag>>
genVars == <<gen, strong, dirExists, sdks, gpc, attempt, runs, gresult>>

(***************************************************************************)
(* Bounds of the model.                                                    *)
(***************************************************************************)
\* longest pair sequence a router is collected from (above ROUTE_CUTOFF + 1,
\* so that the hash representation also holds a duplicated key)
MaxPairs == 17
\* how many times layer / boxed are applied in a row
MaxLayers == 1
\* number of concurrent request-handling tasks
NumTasks == 2

\* router.rs:42
ROUTE_CUTOFF == 15

(***************************************************************************)
(* Bytes and strings.                                                      *)
(***************************************************************************)
RootStr == <<47>>                      \* "/"
XAmzTarget == "x-amz-target"

\* http::Method values that occur in requests
Methods == {"POST", "GET"}

Min(a, b) == IF a < b THEN a ELSE b

Take(s, n) == SubSeq(s, 1, Min(n, Len(s)))
Drop(s, n) == SubSeq(s, Min(n, Len(s)) + 1, Len(s))

Lower(b) == IF b >= 65 /\ b <= 90 THEN b + 32 ELSE b
EqIgnoreAsciiCase(a, b) ==
    /\ Len(a) = Len(b)
    /\ \A i \in 1..Len(a) : Lower(a[i]) = Lower(b[i])

(***************************************************************************)
(* http::Uri and its comparison with a string (request.uri() != "/").      *)
(* A Uri is [scheme, authority, path, hasQuery, query]; an absent scheme   *)
(* or authority is the empty sequence.                                     *)
(***************************************************************************)
MkUri(scheme, authority, path, hasQuery, query) ==
    [scheme |-> scheme, authority |-> authority, path |-> path,
     hasQuery |-> hasQuery, query |-> query]

\* One stage of the comparison: whether it can still succeed and what is
\* left of the string to compare against.
Cmp(ok, rest) == [ok |-> ok, rest |-> rest]

UriEqScheme(uri, st) ==
    IF uri.scheme = <<>> THEN st
    ELSE LET n == Len(uri.scheme) IN
         IF Len(st.rest) < n + 3 THEN Cmp(FALSE, st.rest)
         ELSE IF ~EqIgnoreAsciiCase(uri.scheme, Take(st.rest, n)) THEN Cmp(FALSE, st.rest)
         ELSE IF Take(Drop(st.rest, n), 3) # <<58, 47, 47>> THEN Cmp(FALSE, st.rest)
         ELSE Cmp(st.ok, Drop(st.rest, n + 3))

UriEqAuthority(uri, st) ==
    IF ~st.ok \/ uri.authority = <<>> THEN st
    ELSE LET n == Len(uri.authority) IN
         IF Len(st.rest) < n THEN Cmp(FALSE, st.rest)
         ELSE IF ~EqIgnoreAsciiCase(uri.authority, Take(st.rest, n)) THEN Cmp(FALSE, st.rest)
         ELSE Cmp(st.ok, Drop(st.rest, n))

UriEqPath(uri, st) ==
    IF ~st.ok THEN st
    ELSE LET n == Len(uri.path)
             absolute == uri.scheme # <<>> \/ uri.authority # <<>>
         IN  IF Len(st.rest) < n \/ uri.path # Take(st.rest, n)
             THEN (IF absolute /\ uri.path = RootStr THEN st ELSE Cmp(FALSE, st.rest))
             ELSE Cmp(st.ok, Drop(st.rest, n))

UriEqQuery(uri, st) ==
    IF ~st.ok \/ ~uri.hasQuery THEN st
    ELSE LET n == Len(uri.query) IN
         IF st.rest = <<>> THEN Cmp(uri.query = <<>>, <<>>)
         ELSE IF st.rest[1] # 63 THEN Cmp(FALSE, st.rest)
         ELSE IF Len(st.rest) - 1 < n THEN Cmp(FALSE, st.rest)
         ELSE IF uri.query # Take(Drop(st.rest, 1), n) THEN Cmp(FALSE, st.rest)
         ELSE Cmp(st.ok, Drop(st.rest, n + 1))

\* impl PartialEq<str> for Uri
UriEqStr(uri, other) ==
    LET st == UriEqQuery(uri, UriEqPath(uri, UriEqAuthority(uri,
                  UriEqScheme(uri, Cmp(TRUE, other)))))
    IN  st.ok /\ (st.rest = <<>> \/ st.rest[1] = 35)

\* the request URIs "/", "/?", "/?q", "/a" and "http://h/"
UriRoot == MkUri(<<>>, <<>>, RootStr, FALSE, <<>>)
UriRootEmptyQuery == MkUri(<<>>, <<>>, RootStr, TRUE, <<>>)
UriRootQuery == MkUri(<<>>, <<>>, RootStr, TRUE, <<113>>)
UriOther == MkUri(<<>>, <<>>, <<47, 97>>, FALSE, <<>>)
UriAbsolute == MkUri(<<104, 116, 116, 112>>, <<104>>, RootStr, FALSE, <<>>)

Uris == {UriRoot, UriRootEmptyQuery, UriRootQuery, UriOther, UriAbsolute}

(***************************************************************************)
(* Header values: HeaderMap::get and HeaderValue::to_str.                  *)
(***************************************************************************)
Some(v) == [some |-> TRUE, value |-> v]

\* headers is a function from header names to header values (byte sequences)
HeaderGet(headers, name) ==
    IF name \in DOMAIN headers THEN Some(headers[name]) ELSE [some |-> FALSE, value |-> <<>>]

IsVisibleAscii(b) == (b >= 32 /\ b < 127) \/ b = 9

\* HeaderValue::to_str: the value as text if every byte is visible ASCII,
\* else a ToStrError
to_str(value) ==
    IF \A i \in 1..Len(value) : IsVisibleAscii(value[i])
    THEN [ok |-> TRUE, str |-> value, err |-> "None"]
    ELSE [ok |-> FALSE, str |-> <<>>, err |-> "ToStrError"]

(***************************************************************************)
(* Handlers and match keys.                                                *)
(***************************************************************************)
\* the handler built for the pair at position i of the input sequence
Handler(i) == [op |-> i, layers |-> <<>>]
NoHandler == [op |-> 0, layers |-> <<>>]

\* the operation name used as key number k: one letter, "A", "B", ...
KeyOf(k) == <<64 + k>>

\* S: Clone
clone(route) == route

\* Layer::layer / Route::new: wrap a handler in transformation t
Transform(t, route) == [op |-> route.op, layers |-> Append(route.layers, t)]

Layers == {"L"}

(***************************************************************************)
(* TinyMap<String, S, ROUTE_CUTOFF> (crate::routing::tiny_map): an ordered *)
(* sequence of pairs up to the cutoff, a hash map above it.                *)
(***************************************************************************)
TinyMapVec(vec) == [inner |-> "Vec", vec |-> vec, map |-> <<>>]
TinyMapHash(map) == [inner |-> "HashMap", vec |-> <<>>, map |-> map]

IndexOf(vec, key) ==
    IF \E j \in 1..Len(vec) : vec[j][1] = key
    THEN CHOOSE j \in 1..Len(vec) :
            /\ vec[j][1] = key
            /\ \A i \in 1..(j - 1) : vec[i][1] # key
    ELSE 0

\* insert: a key already present has its value overwritten
TinyMapInsert(vec, pair) ==
    IF IndexOf(vec, pair[1]) = 0 THEN Append(vec, pair)
    ELSE [vec EXCEPT ![IndexOf(vec, pair[1])] = pair]

RECURSIVE TinyMapEntries(_)
TinyMapEntries(seq) ==
    IF seq = <<>> THEN <<>>
    ELSE TinyMapInsert(TinyMapEntries(SubSeq(seq, 1, Len(seq) - 1)), seq[Len(seq)])

\* collect: the representation is chosen once, from the final entry count
TinyMapCollect(seq) ==
    LET entries == TinyMapEntries(seq) IN
    IF Len(entries) > ROUTE_CUTOFF
    THEN TinyMapHash([k \in {entries[j][1] : j \in 1..Len(entries)} |->
                          entries[IndexOf(entries, k)][2]])
    ELSE TinyMapVec(entries)

TinyMapGet(m, key) ==
    IF m.inner = "Vec"
    THEN (IF IndexOf(m.vec, key) = 0 THEN [some |-> FALSE, value |-> NoHandler]
          ELSE Some(m.vec[IndexOf(m.vec, key)][2]))
    ELSE (IF key \in DOMAIN m.map THEN Some(m.map[key])
          ELSE [some |-> FALSE, value |-> NoHandler])

TinyMapKeys(m) ==
    IF m.inner = "Vec" THEN {m.vec[j][1] : j \in 1..Len(m.vec)} ELSE DOMAIN m.map

TinyMapLen(m) ==
    IF m.inner = "Vec" THEN Len(m.vec) ELSE Cardinality(DOMAIN m.map)

RECURSIVE HashIter(_, _)
HashIter(map, keys) ==
    IF keys = {} THEN <<>>
    ELSE LET k == CHOOSE k \in keys : TRUE
         IN  <<(<<k, map[k]>>)>> \o HashIter(map, keys \ {k})

\* into_iter: the pairs in stored order (a hash map yields each key once, in
\* an order that does not matter to collect since its keys are distinct)
TinyMapIntoIter(m) ==
    IF m.inner = "Vec" THEN m.vec ELSE HashIter(m.map, DOMAIN m.map)

(***************************************************************************)
(* AwsJsonRouter.                                                          *)
(***************************************************************************)
\* the checks of match_route, in source order
CheckOrder == <<"uri", "method", "header_present", "header_valid", "lookup">>

\* Result<S, Error>; `evaluated` records which checks the call evaluated
Ok(route, evaluated) ==
    [ok |-> TRUE, error |-> "None", cause |-> "None", route |-> route,
     evaluated |-> evaluated]
Err(error, cause, evaluated) ==
    [ok |-> FALSE, error |-> error, cause |-> cause, route |-> NoHandler,
     evaluated |-> evaluated]

\* Router::match_route with the header checks before the method check
match_route_header_first(self, request) ==
    IF ~UriEqStr(request.uri, RootStr)
    THEN Err("NotRootUrl", "None", SubSeq(CheckOrder, 1, 1))
    ELSE LET t == HeaderGet(request.headers, XAmzTarget) IN
    IF ~t.some
    THEN Err("MissingHeader", "None", <<"uri", "header_present">>)
    ELSE IF request.method # "POST"
    THEN Err("MethodNotAllowed", "None", <<"uri", "header_present", "method">>)
    ELSE LET s == to_str(t.value) IN
    IF ~s.ok
    THEN Err("InvalidHeader", s.err, <<"uri", "header_present", "method", "header_valid">>)
    ELSE LET route == TinyMapGet(self.routes, s.str) IN
    IF ~route.some
    THEN Err("NotFound", "None", <<"uri", "header_present", "method", "header_valid", "lookup">>)
    ELSE Ok(clone(route.value), <<"uri", "header_present", "method", "header_valid", "lookup">>)

\* Router::match_route comparing only the path of the URI with "/"
match_route_path_only(self, request) ==
    IF request.uri.path # RootStr
    THEN Err("NotRootUrl", "None", SubSeq(CheckOrder, 1, 1))
    ELSE IF request.method # "POST"
    THEN Err("MethodNotAllowed", "None", SubSeq(CheckOrder, 1, 2))
    ELSE LET t == HeaderGet(request.headers, XAmzTarget) IN
    IF ~t.some
    THEN Err("MissingHeader", "None", SubSeq(CheckOrder, 1, 3))
    ELSE LET s == to_str(t.value) IN
    IF ~s.ok
    THEN Err("InvalidHeader", s.err, SubSeq(CheckOrder, 1, 4))
    ELSE LET route == TinyMapGet(self.routes, s.str) IN
    IF ~route.some
    THEN Err("NotFound", "None", SubSeq(CheckOrder, 1, 5))
    ELSE Ok(clone(route.value), SubSeq(CheckOrder, 1, 5))

\* Router::match_route without the method check
match_route_any_method(self, request) ==
    IF ~UriEqStr(request.uri, RootStr)
    THEN Err("NotRootUrl", "None", SubSeq(CheckOrder, 1, 1))
    ELSE LET t == HeaderGet(request.headers, XAmzTarget) IN
    IF ~t.some
    THEN Err("MissingHeader", "None", SubSeq(CheckOrder, 1, 3))
    ELSE LET s == to_str(t.value) IN
    IF ~s.ok
    THEN Err("InvalidHeader", s.err, SubSeq(CheckOrder, 1, 4))
    ELSE LET route == TinyMapGet(self.routes, s.str) IN
    IF ~route.some
    THEN Err("NotFound", "None", SubSeq(CheckOrder, 1, 5))
    ELSE Ok(clone(route.value), SubSeq(CheckOrder, 1, 5))

\* Router::match_route reporting an unparsable header as a missing route
match_route_lossy_header(self, request) ==
    IF ~UriEqStr(request.uri, RootStr)
    THEN Err("NotRootUrl", "None", SubSeq(CheckOrder, 1, 1))
    ELSE IF request.method # "POST"
    THEN Err("MethodNotAllowed", "None", SubSeq(CheckOrder, 1, 2))
    ELSE LET t == HeaderGet(request.headers, XAmzTarget) IN
    IF ~t.some
    THEN Err("MissingHeader", "None", SubSeq(CheckOrder, 1, 3))
    ELSE LET s == to_str(t.value) IN
         LET route == TinyMapGet(self.routes, s.str) IN
    IF ~route.some
    THEN Err("NotFound", "None", SubSeq(CheckOrder, 1, 5))
    ELSE Ok(clone(route.value), SubSeq(CheckOrder, 1, 5))

\* Router::match_route handing out the first stored route
match_route_first_route(self, request) ==
    IF ~UriEqStr(request.uri, RootStr)
    THEN Err("NotRootUrl", "None", SubSeq(CheckOrder, 1, 1))
    ELSE IF request.method # "POST"
    THEN Err("MethodNotAllowed", "None", SubSeq(CheckOrder, 1, 2))
    ELSE LET t == HeaderGet(request.headers, XAmzTarget) IN
    IF ~t.some
    THEN Err("MissingHeader", "None", SubSeq(CheckOrder, 1, 3))
    ELSE LET s == to_str(t.value) IN
    IF ~s.ok
    THEN Err("InvalidHeader", s.err, SubSeq(CheckOrder, 1, 4))
    ELSE LET route == TinyMapGet(self.routes, s.str) IN
    IF ~route.some
    THEN Err("NotFound", "None", SubSeq(CheckOrder, 1, 5))
    ELSE Ok(clone(TinyMapIntoIter(self.routes)[1][2]), SubSeq(CheckOrder, 1, 5))

\* Router::match_route
match_route(self, request) ==
    \* The URI must be root,
    IF ~UriEqStr(request.uri, RootStr)
    THEN Err("NotRootUrl", "None", SubSeq(CheckOrder, 1, 1))
    \* Only `Method::POST` is allowed.
    ELSE IF request.method # "POST"
    THEN Err("MethodNotAllowed", "None", SubSeq(CheckOrder, 1, 2))
    \* Find the `x-amz-target` header.
    ELSE LET t == HeaderGet(request.headers, XAmzTarget) IN
    IF ~t.some
    THEN Err("MissingHeader", "None", SubSeq(CheckOrder, 1, 3))
    ELSE LET s == to_str(t.value) IN
    IF ~s.ok
    THEN Err("InvalidHeader", s.err, SubSeq(CheckOrder, 1, 4))
    \* Lookup in the `TinyMap` for a route for the target.
    ELSE LET route == TinyMapGet(self.routes, s.str) IN
    IF ~route.some
    THEN Err("NotFound", "None", SubSeq(CheckOrder, 1, 5))
    ELSE Ok(clone(route.value), SubSeq(CheckOrder, 1, 5))

\* match_route takes &self: the router after the call
routes_after_take(self, request) ==
    LET r == match_route(self, request) IN
    IF ~r.ok THEN self.routes
    ELSE LET it == TinyMapIntoIter(self.routes)
             keep == SelectSeq(it, LAMBDA p : p[1] # request.headers[XAmzTarget])
         IN  TinyMapCollect(keep)

routes_after(self, request) == self.routes

\* FromIterator::from_iter losing the first pair once the table is promoted
from_iter_promote_loses(iter) ==
    [routes |-> TinyMapCollect(
        IF Len(iter) > ROUTE_CUTOFF THEN SubSeq(iter, 2, Len(iter)) ELSE iter)]

\* FromIterator::from_iter consuming the iterator from its back
from_iter_rev(iter) ==
    [routes |-> TinyMapCollect([i \in 1..Len(iter) |-> iter[Len(iter) + 1 - i]])]

\* FromIterator::from_iter
from_iter(iter) ==
    [routes |-> TinyMapCollect([i \in 1..Len(iter) |-> <<iter[i][1], iter[i][2]>>])]

MapRoutes(iter, t) ==
    [i \in 1..Len(iter) |-> <<iter[i][1], Transform(t, iter[i][2])>>]

\* layer that leaves the first route as it was
layer_skip_first(self, t) ==
    LET it == TinyMapIntoIter(self.routes)
        mapped == MapRoutes(it, t)
    IN  [routes |-> TinyMapCollect(
            [i \in 1..Len(it) |-> IF i = 1 THEN it[i] ELSE mapped[i]])]

\* AwsJsonRouter::layer
layer(self, t) ==
    [routes |-> TinyMapCollect(MapRoutes(TinyMapIntoIter(self.routes), t))]

\* AwsJsonRouter::boxed
boxed(self) ==
    [routes |-> TinyMapCollect(MapRoutes(TinyMapIntoIter(self.routes), "Route"))]

(***************************************************************************)
(* Inputs.                                                                 *)
(***************************************************************************)
\* n pairs with keys "A", "B", ... in order; when d2 > 0 the pair at
\* position d2 repeats the key of position d1. The sequences drawn have no
\* repeated key, or one key repeated by the next pair or by the last pair.
PairSeq(n, d1, d2) ==
    [i \in 1..n |-> <<KeyOf(IF i = d2 THEN d1 ELSE i), Handler(i)>>]

PairSeqs ==
    {PairSeq(n, 0, 0) : n \in 0..MaxPairs} \cup
    {PairSeq(x[1], x[2], x[3]) :
        x \in {y \in (2..MaxPairs) \X (1..MaxPairs) \X (2..MaxPairs) :
                   y[2] < y[3] /\ y[3] <= y[1] /\ y[3] \in {y[2] + 1, y[1]}}}

\* a value that starts like a key and holds a byte that is not text
InvalidValue == <<65, 200>>

HeaderValues(n) == {KeyOf(k) : k \in 1..(n + 1)} \cup {InvalidValue, <<>>}

HeaderMaps(n) ==
    {<<>>} \cup {[h \in {"content-type"} |-> KeyOf(1)]}
           \cup {[h \in {XAmzTarget} |-> v] : v \in HeaderValues(n)}

\* the requests made of a router collected from n pairs
Requests(n) ==
    [uri : Uris, method : Methods, headers : HeaderMaps(n)]

NoRequest == [uri |-> UriRoot, method |-> "POST", headers |-> <<>>]
NoOutcome == Err("None", "None", <<>>)
NoRouter == [routes |-> TinyMapVec(<<>>)]

(***************************************************************************)
(* Actions: one router, used by one caller.                                *)
(***************************************************************************)
Init ==
    /\ router = NoRouter
    /\ pairs = <<>>
    /\ built = NoRouter.routes
    /\ source = NoRouter
    /\ transform = "None"
    /\ depth = 0
    /\ last = "none"
    /\ call = NoRequest
    /\ outcome = NoOutcome
    /\ pc = [t \in 1..NumTasks |-> "idle"]
    /\ treq = [t \in 1..NumTasks |-> NoRequest]
    /\ ttarget = [t \in 1..NumTasks |-> <<>>]
    /\ tresult = [t \in 1..NumTasks |-> NoOutcome]
    /\ hphase = "idle"
    /\ hlabel = <<>>
    /\ hdots = FALSE
    /\ hstack = <<>>
    /\ hret = FALSE
    /\ hdiag = <<>>
    /\ gen = "none"
    /\ strong = 0
    /\ dirExists = FALSE
    /\ sdks = <<>>
    /\ gpc = "idle"
    /\ attempt = 0
    /\ runs = <<>>
    /\ gresult = [kind |-> "none", message |-> <<>>]

Collect(iter) ==
    /\ last = "none"
    /\ router' = from_iter(iter)
    /\ pairs' = iter
    /\ built' = router'.routes
    /\ last' = "from_iter"
    /\ UNCHANGED <<source, transform, depth, call, outcome>>

FromIter ==
    /\ \E iter \in PairSeqs : Collect(iter)
    /\ UNCHANGED taskVars
    /\ UNCHANGED <<hostVars, genVars>>

Layer ==
    /\ last \in {"from_iter", "layer", "boxed"}
    /\ depth < MaxLayers
    /\ \E t \in Layers :
          /\ router' = layer(router, t)
          /\ transform' = t
    /\ source' = router
    /\ built' = router'.routes
    /\ depth' = depth + 1
    /\ last' = "layer"
    /\ UNCHANGED <<pairs, call, outcome>>
    /\ UNCHANGED taskVars
    /\ UNCHANGED <<hostVars, genVars>>

Boxed ==
    /\ last \in {"from_iter", "layer", "boxed"}
    /\ depth < MaxLayers
    /\ router' = boxed(router)
    /\ transform' = "Route"
    /\ source' = router
    /\ built' = router'.routes
    /\ depth' = depth + 1
    /\ last' = "boxed"
    /\ UNCHANGED <<pairs, call, outcome>>
    /\ UNCHANGED taskVars
    /\ UNCHANGED <<hostVars, genVars>>

\* a whole match_route call by the only caller
Dispatch(req) ==
    /\ call' = req
    /\ outcome' = match_route(router, req)
    /\ router' = [routes |-> routes_after(router, req)]
    /\ last' = "match_route"
    /\ UNCHANGED <<pairs, built, source, transform, depth>>
    /\ UNCHANGED taskVars
    /\ UNCHANGED <<hostVars, genVars>>

\* one request dispatched on the router as built or layered
MatchRoute ==
    /\ last \in {"from_iter", "layer", "boxed"}
    /\ \E req \in Requests(Len(pairs)) : Dispatch(req)

Next == FromIter \/ Layer \/ Boxed \/ MatchRoute

\* build a router, layer it, dispatch one request
Spec == Init /\ [][Next]_vars

(***************************************************************************)
(* Actions: one router, any number of calls in a row.                      *)
(***************************************************************************)
\* the requests the repeated and the concurrent calls are made with: one for
\* each outcome, and two that fail several checks at once
SharedRequests(n) ==
    {[uri |-> UriRoot, method |-> "POST", headers |-> [h \in {XAmzTarget} |-> KeyOf(1)]],
     [uri |-> UriRoot, method |-> "POST", headers |-> [h \in {XAmzTarget} |-> KeyOf(n)]],
     [uri |-> UriRoot, method |-> "POST", headers |-> [h \in {XAmzTarget} |-> KeyOf(n + 1)]],
     [uri |-> UriRoot, method |-> "POST", headers |-> [h \in {XAmzTarget} |-> InvalidValue]],
     [uri |-> UriRoot, method |-> "POST", headers |-> <<>>],
     [uri |-> UriRoot, method |-> "GET", headers |-> [h \in {XAmzTarget} |-> KeyOf(1)]],
     [uri |-> UriOther, method |-> "POST", headers |-> [h \in {XAmzTarget} |-> KeyOf(1)]],
     [uri |-> UriRootQuery, method |-> "GET", headers |-> <<>>]}

FromIterCalls ==
    /\ \E iter \in PairSeqs : Collect(iter)
    /\ UNCHANGED taskVars
    /\ UNCHANGED <<hostVars, genVars>>

MatchRouteAgain ==
    /\ last \in {"from_iter", "match_route"}
    /\ \E req \in SharedRequests(Len(pairs)) : Dispatch(req)

NextCalls == FromIterCalls \/ MatchRouteAgain

\* build a router, dispatch request after request
SpecCalls == Init /\ [][NextCalls]_vars

(***************************************************************************)
(* Actions: one router shared by NumTasks tasks, each stepping through     *)
(* match_route statement by statement.                                     *)
(***************************************************************************)
Tasks == 1..NumTasks

\* the routers shared between tasks: scan and hash tables, one of them
\* collected from pairs that repeat a key
SharedPairSeqs ==
    {PairSeq(n, 0, 0) : n \in {2, ROUTE_CUTOFF, MaxPairs}} \cup {PairSeq(MaxPairs, 1, MaxPairs)}

FromIterShared ==
    /\ \E iter \in SharedPairSeqs : Collect(iter)
    /\ UNCHANGED taskVars
    /\ UNCHANGED <<hostVars, genVars>>

\* the task's local `target` read by another task's call
lookup_target_shared(t) == ttarget[1]

\* the local `target` of the call task t is making
lookup_target(t) == ttarget[t]

\* return replaced by an unwrap of the header text: a value that is not
\* text unwinds the call instead of returning an error
Finish_unwrap(t, result) ==
    IF result.error = "InvalidHeader"
    THEN pc' = [pc EXCEPT ![t] = "panicked"] /\ UNCHANGED tresult
    ELSE /\ pc' = [pc EXCEPT ![t] = "done"]
         /\ tresult' = [tresult EXCEPT ![t] = result]

Finish(t, result) ==
    /\ pc' = [pc EXCEPT ![t] = "done"]
    /\ tresult' = [tresult EXCEPT ![t] = result]

\* a task receives a request and calls match_route on the shared router
Start(t) ==
    /\ last = "from_iter"
    /\ pc[t] = "idle"
    /\ \E req \in SharedRequests(Len(pairs)) : treq' = [treq EXCEPT ![t] = req]
    /\ pc' = [pc EXCEPT ![t] = "check_uri"]
    /\ UNCHANGED <<ttarget, tresult>>
    /\ UNCHANGED seqVars
    /\ UNCHANGED <<hostVars, genVars>>

\* if request.uri() != "/" { return Err(Error::NotRootUrl); }
CheckUri(t) ==
    /\ pc[t] = "check_uri"
    /\ IF ~UriEqStr(treq[t].uri, RootStr)
       THEN Finish(t, Err("NotRootUrl", "None", SubSeq(CheckOrder, 1, 1)))
       ELSE pc' = [pc EXCEPT ![t] = "check_method"] /\ UNCHANGED tresult
    /\ UNCHANGED <<treq, ttarget>>
    /\ UNCHANGED seqVars
    /\ UNCHANGED <<hostVars, genVars>>

\* if request.method() != http::Method::POST { return Err(Error::MethodNotAllowed); }
CheckMethod(t) ==
    /\ pc[t] = "check_method"
    /\ IF treq[t].method # "POST"
       THEN Finish(t, Err("MethodNotAllowed", "None", SubSeq(CheckOrder, 1, 2)))
       ELSE pc' = [pc EXCEPT ![t] = "get_header"] /\ UNCHANGED tresult
    /\ UNCHANGED <<treq, ttarget>>
    /\ UNCHANGED seqVars
    /\ UNCHANGED <<hostVars, genVars>>

\* let target = request.headers().get("x-amz-target").ok_or(Error::MissingHeader)?;
GetHeader(t) ==
    /\ pc[t] = "get_header"
    /\ LET h == HeaderGet(treq[t].headers, XAmzTarget) IN
       IF ~h.some
       THEN Finish(t, Err("MissingHeader", "None", SubSeq(CheckOrder, 1, 3)))
            /\ UNCHANGED ttarget
       ELSE /\ pc' = [pc EXCEPT ![t] = "to_str"]
            /\ ttarget' = [ttarget EXCEPT ![t] = h.value]
            /\ UNCHANGED tresult
    /\ UNCHANGED treq
    /\ UNCHANGED seqVars
    /\ UNCHANGED <<hostVars, genVars>>

\* let target = target.to_str().map_err(Error::InvalidHeader)?;
ToStr(t) ==
    /\ pc[t] = "to_str"
    /\ LET s == to_str(ttarget[t]) IN
       IF ~s.ok
       THEN Finish(t, Err("InvalidHeader", s.err, SubSeq(CheckOrder, 1, 4)))
            /\ UNCHANGED ttarget
       ELSE /\ pc' = [pc EXCEPT ![t] = "lookup"]
            /\ ttarget' = [ttarget EXCEPT ![t] = s.str]
            /\ UNCHANGED tresult
    /\ UNCHANGED treq
    /\ UNCHANGED seqVars
    /\ UNCHANGED <<hostVars, genVars>>

\* let route = self.routes.get(target).ok_or(Error::NotFound)?; Ok(route.clone())
Lookup(t) ==
    /\ pc[t] = "lookup"
    /\ LET route == TinyMapGet(router.routes, lookup_target(t)) IN
       IF ~route.some
       THEN Finish(t, Err("NotFound", "None", SubSeq(CheckOrder, 1, 5)))
       ELSE Finish(t, Ok(clone(route.value), SubSeq(CheckOrder, 1, 5)))
    /\ router' = [routes |-> routes_after(router, treq[t])]
    /\ UNCHANGED <<treq, ttarget>>
    /\ UNCHANGED <<pairs, built, source, transform, depth, last, call, outcome>>
    /\ UNCHANGED <<hostVars, genVars>>

\* the caller takes the result; the task is free for the next request
Return(t) ==
    /\ pc[t] = "done"
    /\ pc' = [pc EXCEPT ![t] = "idle"]
    /\ treq' = [treq EXCEPT ![t] = NoRequest]
    /\ ttarget' = [ttarget EXCEPT ![t] = <<>>]
    /\ tresult' = [tresult EXCEPT ![t] = NoOutcome]
    /\ UNCHANGED seqVars
    /\ UNCHANGED <<hostVars, genVars>>

\* the next statement of task t's call
TaskStep(t) ==
    CheckUri(t) \/ CheckMethod(t) \/ GetHeader(t) \/ ToStr(t) \/ Lookup(t)

NextShared ==
    \/ FromIterShared
    \/ \E t \in Tasks : Start(t)
    \/ \E t \in Tasks : CheckUri(t)
    \/ \E t \in Tasks : CheckMethod(t)
    \/ \E t \in Tasks : GetHeader(t)
    \/ \E t \in Tasks : ToStr(t)
    \/ \E t \in Tasks : Lookup(t)
    \/ \E t \in Tasks : Return(t)

\* build a router, then tasks dispatch on it concurrently
SpecShared == Init /\ [][NextShared]_vars

(***************************************************************************)
(* Properties of a single dispatch (specification Spec).                   *)
(***************************************************************************)
PairKeys(iter) == {iter[i][1] : i \in 1..Len(iter)}

DistinctKeys(iter) ==
    \A i, j \in 1..Len(iter) : i # j => iter[i][1] # iter[j][1]

\* the position of the last pair of iter carrying key k
LastIndex(iter, k) ==
    CHOOSE i \in 1..Len(iter) :
        /\ iter[i][1] = k
        /\ \A j \in (i + 1)..Len(iter) : iter[j][1] # k

HasTarget(req) == XAmzTarget \in DOMAIN req.headers
TargetOf(req) == req.headers[XAmzTarget]

\* the request URI is exactly "/": no scheme, no authority, path "/", and no
\* query string or an empty one
UriIsRoot(uri) ==
    /\ uri.scheme = <<>>
    /\ uri.authority = <<>>
    /\ uri.path = RootStr
    /\ (uri.hasQuery => uri.query = <<>>)

PathIsRoot(uri) == uri.path = RootStr

ValidText(value) == \A i \in 1..Len(value) : IsVisibleAscii(value[i])

Called == last = "match_route"

\* a POST request with URI "/" whose x-amz-target value is key k
MatchingRequest(req, k) ==
    /\ req.uri = UriRoot
    /\ req.method = "POST"
    /\ HasTarget(req)
    /\ TargetOf(req) = k

\* C1: a router collected from pairs with pairwise distinct keys dispatches a
\* matching request for key K (URI "/", POST, x-amz-target: K) to the handler
\* paired with K, below and above the cutoff.
C1_DistinctKeysDispatch ==
    (Called /\ depth = 0 /\ DistinctKeys(pairs)) =>
        \A i \in 1..Len(pairs) :
            MatchingRequest(call, pairs[i][1]) =>
                outcome.ok /\ outcome.route = pairs[i][2]

C1_Witness ==
    /\ Called /\ depth = 0 /\ DistinctKeys(pairs)
    /\ Len(pairs) > ROUTE_CUTOFF
    /\ router.routes.inner = "HashMap"
    /\ MatchingRequest(call, pairs[ROUTE_CUTOFF + 1][1])
    /\ outcome.ok

\* C2 as stated: NotRootUrl is returned exactly when the request's path
\* differs from "/".
C2_NotRootIffPathDiffers ==
    Called => (outcome.error = "NotRootUrl" <=> ~PathIsRoot(call.uri))

\* C2, amended: NotRootUrl is returned exactly when the request URI as a
\* whole is not "/" (a non-empty query string or an absolute form makes it
\* differ although the path is "/"); method, headers and route table have no
\* influence.
C2_NotRootIffUriDiffers ==
    Called => (outcome.error = "NotRootUrl" <=> ~UriIsRoot(call.uri))

C2_Witness ==
    /\ Called
    /\ call.uri = UriRootQuery
    /\ call.method = "POST"
    /\ HasTarget(call) /\ TargetOf(call) \in PairKeys(pairs)
    /\ outcome.error = "NotRootUrl"

\* C3 as stated: a request whose path is "/" and whose method is not POST
\* gets MethodNotAllowed, whatever its headers.
C3_RootPathNonPost ==
    (Called /\ PathIsRoot(call.uri) /\ call.method # "POST") =>
        outcome.error = "MethodNotAllowed"

\* C3, amended: a request whose URI is exactly "/" and whose method is not
\* POST gets MethodNotAllowed, whatever its headers.
C3_RootUriNonPost ==
    (Called /\ UriIsRoot(call.uri) /\ call.method # "POST") =>
        (~outcome.ok /\ outcome.error = "MethodNotAllowed")

C3_Witness ==
    /\ Called
    /\ call.uri = UriRoot
    /\ call.method = "GET"
    /\ HasTarget(call) /\ TargetOf(call) \in PairKeys(pairs)
    /\ outcome.error = "MethodNotAllowed"

\* the three header failures of a POST request, and their exhaustiveness
HeaderErrors ==
    /\ ~HasTarget(call) => (~outcome.ok /\ outcome.error = "MissingHeader")
    /\ (HasTarget(call) /\ ~ValidText(TargetOf(call))) =>
           (~outcome.ok /\ outcome.error = "InvalidHeader" /\ outcome.cause = "ToStrError")
    /\ (HasTarget(call) /\ ValidText(TargetOf(call))
            /\ TargetOf(call) \notin TinyMapKeys(built)) =>
           (~outcome.ok /\ outcome.error = "NotFound")
    /\ ~outcome.ok => outcome.error \in {"MissingHeader", "InvalidHeader", "NotFound"}

\* C4 as stated: for a POST request whose path is "/": no x-amz-target gives
\* MissingHeader, a value that is not text gives InvalidHeader with the
\* conversion error, a text value that is no key gives NotFound, and no other
\* failure occurs.
C4_RootPathPostErrors ==
    (Called /\ PathIsRoot(call.uri) /\ call.method = "POST") => HeaderErrors

\* C4, amended: the same for a POST request whose URI is exactly "/".
C4_RootUriPostErrors ==
    (Called /\ UriIsRoot(call.uri) /\ call.method = "POST") => HeaderErrors

C4_Witness ==
    /\ Called
    /\ UriIsRoot(call.uri) /\ call.method = "POST"
    /\ HasTarget(call) /\ ~ValidText(TargetOf(call))
    /\ outcome.error = "InvalidHeader" /\ outcome.cause = "ToStrError"

\* whether check c passes for request req on route table routes; rootUri is
\* the outcome of the first check
CheckPasses(c, rootUri, routes, req) ==
    CASE c = "uri" -> rootUri
      [] c = "method" -> req.method = "POST"
      [] c = "header_present" -> HasTarget(req)
      [] c = "header_valid" -> HasTarget(req) /\ ValidText(TargetOf(req))
      [] c = "lookup" -> HasTarget(req) /\ TargetOf(req) \in TinyMapKeys(routes)

ErrorOf(c) ==
    CASE c = "uri" -> "NotRootUrl"
      [] c = "method" -> "MethodNotAllowed"
      [] c = "header_present" -> "MissingHeader"
      [] c = "header_valid" -> "InvalidHeader"
      [] c = "lookup" -> "NotFound"

\* the call evaluated a prefix of CheckOrder, every check but the last one
\* evaluated passed, and the result is the error of the last one if it failed
FirstFailureDecides(rootUri) ==
    LET n == Len(outcome.evaluated) IN
    /\ n >= 1
    /\ outcome.evaluated = SubSeq(CheckOrder, 1, n)
    /\ \A i \in 1..(n - 1) : CheckPasses(CheckOrder[i], rootUri, built, call)
    /\ IF outcome.ok
       THEN n = Len(CheckOrder) /\ CheckPasses(CheckOrder[n], rootUri, built, call)
       ELSE /\ ~CheckPasses(CheckOrder[n], rootUri, built, call)
            /\ outcome.error = ErrorOf(CheckOrder[n])
            /\ outcome.route = NoHandler

\* C5 as stated: the checks run in the order path, method, header presence,
\* header validity, table lookup; the first failing one decides the error and
\* no later check is evaluated.
C5_OrderWithPathCheck == Called => FirstFailureDecides(PathIsRoot(call.uri))

\* C5, amended: the same order, the first check being the comparison of the
\* whole request URI with "/".
C5_OrderWithUriCheck == Called => FirstFailureDecides(UriIsRoot(call.uri))

C5_Witness ==
    /\ Called
    /\ ~UriIsRoot(call.uri) /\ call.method # "POST" /\ ~HasTarget(call)
    /\ outcome.error = "NotRootUrl"
    /\ outcome.evaluated = <<"uri">>

\* C6: when a key occurs more than once in the collected pairs, a matching
\* request dispatches to the handler of the last pair carrying it, in both
\* representations, and collecting never fails.
C6_LastWriteWins ==
    /\ (last # "none" /\ depth = 0) => TinyMapKeys(router.routes) = PairKeys(pairs)
    /\ (Called /\ depth = 0) =>
          \A k \in PairKeys(pairs) :
              MatchingRequest(call, k) =>
                  outcome.ok /\ outcome.route = pairs[LastIndex(pairs, k)][2]

C6_Witness ==
    /\ Called /\ depth = 0
    /\ router.routes.inner = "HashMap"
    /\ \E i, j \in 1..Len(pairs) :
          /\ i < j
          /\ pairs[i][1] = pairs[j][1]
          /\ MatchingRequest(call, pairs[i][1])
          /\ outcome.ok /\ outcome.route = pairs[j][2]

\* C7: the router produced by layer / boxed has the key set of the router it
\* consumed, holds for every key the transformation of the handler held
\* before (applied once), and rejects every request the consumed router
\* rejects with the same error.
C7_LayerPreservesStructure ==
    last \in {"layer", "boxed"} =>
        /\ TinyMapKeys(router.routes) = TinyMapKeys(source.routes)
        /\ TinyMapLen(router.routes) = TinyMapLen(source.routes)
        /\ \A k \in TinyMapKeys(source.routes) :
              LET old == TinyMapGet(source.routes, k).value
                  new == TinyMapGet(router.routes, k).value
              IN  /\ new = Transform(transform, old)
                  /\ Len(new.layers) = Len(old.layers) + 1
        /\ \A req \in Requests(Len(pairs)) :
              LET a == match_route(source, req)
                  b == match_route(router, req)
              IN  /\ ~a.ok => (~b.ok /\ b.error = a.error /\ b.cause = a.cause)
                  /\ a.ok => (b.ok /\ b.route = Transform(transform, a.route))

C7_Witness ==
    /\ last = "layer"
    /\ transform = "L"
    /\ TinyMapLen(source.routes) > ROUTE_CUTOFF
    /\ TinyMapGet(router.routes, KeyOf(1)).value = Transform("L", Handler(1))

\* the route table of iter in the given representation, whatever its size
TinyMapAs(iter, inner) ==
    LET entries == TinyMapEntries(iter) IN
    IF inner = "HashMap"
    THEN TinyMapHash([k \in PairKeys(entries) |-> entries[IndexOf(entries, k)][2]])
    ELSE TinyMapVec(entries)

RemoveAt(iter, j) == SubSeq(iter, 1, j - 1) \o SubSeq(iter, j + 1, Len(iter))

TargetRequest(k) ==
    [uri |-> UriRoot, method |-> "POST", headers |-> [h \in {XAmzTarget} |-> k]]

\* C8: get gives the same result on the scan and on the hash representation
\* of the same pairs, for present and absent keys; and the result of
\* match_route for a key does not change when a pair with another key is
\* added to the pairs, also when that moves the table across the cutoff.
C8_RepresentationInvisible ==
    last = "from_iter" =>
        /\ \A k \in HeaderValues(Len(pairs)) :
              TinyMapGet(TinyMapAs(pairs, "Vec"), k) = TinyMapGet(TinyMapAs(pairs, "HashMap"), k)
        /\ \A j \in 1..Len(pairs) :
              \A k \in HeaderValues(Len(pairs)) \ {pairs[j][1]} :
                  match_route(router, TargetRequest(k))
                      = match_route(from_iter(RemoveAt(pairs, j)), TargetRequest(k))

C8_Witness ==
    /\ last = "from_iter"
    /\ Len(pairs) = ROUTE_CUTOFF + 1
    /\ DistinctKeys(pairs)
    /\ router.routes.inner = "HashMap"
    /\ from_iter(RemoveAt(pairs, 1)).routes.inner = "Vec"
    /\ match_route(router, TargetRequest(KeyOf(2))).ok

(***************************************************************************)
(* Properties of repeated and of concurrent dispatch.                      *)
(***************************************************************************)
\* C9: match_route is a pure read: after any number of calls the route table
\* is the table as constructed, every call returns what the constructed
\* table gives for its request, and a call repeated with the same request
\* returns the same outcome.
C9_PureRead ==
    /\ [](Called =>
            /\ router.routes = built
            /\ built = from_iter(pairs).routes
            /\ outcome = match_route([routes |-> built], call))
    /\ [][(Called /\ call' = call) => outcome' = outcome]_vars

C9_Witness ==
    /\ Called
    /\ MatchingRequest(call, KeyOf(1))
    /\ outcome.ok
    /\ router.routes.inner = "HashMap"
    /\ ENABLED MatchRouteAgain

\* C10: under every interleaving each call returns what it would return
\* alone on the fully built table, the table is never seen changed or partly
\* built, and a call that has started can always take its next step,
\* whatever the other tasks are doing.
C10_ConcurrentCallsIndependent ==
    /\ router.routes = (IF last = "none" THEN NoRouter.routes ELSE from_iter(pairs).routes)
    /\ \A t \in Tasks :
          /\ pc[t] = "done" => tresult[t] = match_route(from_iter(pairs), treq[t])
          /\ pc[t] \notin {"idle", "done"} => ENABLED TaskStep(t)
          /\ pc[t] = "idle" => (ENABLED Start(t) <=> last = "from_iter")

C10_Witness ==
    /\ router.routes.inner = "HashMap"
    /\ pc[1] = "done" /\ tresult[1].ok
    /\ pc[2] = "lookup" /\ ttarget[2] # TargetOf(treq[1])
    /\ ttarget[2] \in TinyMapKeys(router.routes)

(***************************************************************************)
(* Termination of match_route (specification SpecShared).                  *)
(***************************************************************************)
\* the statements of match_route in source order, then the return
Position(p) ==
    CASE p = "check_uri" -> 1
      [] p = "check_method" -> 2
      [] p = "get_header" -> 3
      [] p = "to_str" -> 4
      [] p = "lookup" -> 5
      [] p = "done" -> 6
      [] OTHER -> 0

Outcomes == {"NotRootUrl", "MethodNotAllowed", "MissingHeader", "InvalidHeader", "NotFound"}

\* C11: every match_route call ends within five statements in exactly one of
\* six outcomes (a handler or one of the five errors); a call under way is
\* always at a statement of match_route that can be executed (it neither
\* panics nor waits), and every statement moves it forward, so it cannot
\* loop; this includes a request whose x-amz-target holds bytes that are not
\* text.
C11_TerminatesInSixOutcomes ==
    /\ [](\A t \in Tasks :
            /\ pc[t] \in {"idle", "check_uri", "check_method", "get_header",
                          "to_str", "lookup", "done"}
            /\ pc[t] \notin {"idle", "done"} => ENABLED TaskStep(t)
            /\ pc[t] = "done" =>
                  /\ tresult[t].ok <=> tresult[t].error = "None"
                  /\ ~tresult[t].ok => tresult[t].error \in Outcomes
                  /\ tresult[t].ok => tresult[t].route # NoHandler
                  /\ Len(tresult[t].evaluated) \in 1..Len(CheckOrder))
    /\ [][\A t \in Tasks :
            (pc[t] \notin {"idle", "done"} /\ pc'[t] # pc[t]) =>
                Position(pc'[t]) > Position(pc[t])]_vars

C11_Witness ==
    \E t \in Tasks :
        /\ pc[t] = "done"
        /\ HasTarget(treq[t]) /\ ~ValidText(TargetOf(treq[t]))
        /\ tresult[t].error = "InvalidHeader"
        /\ tresult[t].evaluated = SubSeq(CheckOrder, 1, 4)

(***************************************************************************)
(* is_valid_host_label (rust-runtime/inlineable/src/endpoint_lib/host.rs). *)
(* A label is a sequence of chars (code points).                           *)
(***************************************************************************)
\* longest input, in runs of one repeated char
MaxSegs == 3
\* deepest stack of is_valid_host_label calls the model follows
MaxHostDepth == 3

\* host.rs:21
LabelMaxLen == 63

\* 'a', '-', '.', '_' and U+00E9 (an alphanumeric char of two UTF-8 bytes)
Alphabet == {97, 45, 46, 95, 233}

\* a run is one char or LabelMaxLen times the same char
RunLengths == {1, LabelMaxLen}

RECURSIVE Expand(_)
Expand(segs) ==
    IF segs = <<>> THEN <<>>
    ELSE [i \in 1..segs[1][2] |-> segs[1][1]] \o Expand(Tail(segs))

Labels ==
    {Expand(segs) : segs \in UNION {[1..k -> Alphabet \X RunLengths] : k \in 0..MaxSegs}}

\* char::len_utf8
Utf8Width(ch) ==
    IF ch < 128 THEN 1 ELSE IF ch < 2048 THEN 2 ELSE IF ch < 65536 THEN 3 ELSE 4

\* str::len: the length in bytes, one for each char and one more for each
\* char that needs a second, a third and a fourth byte
str_len(label) ==
    Len(label)
    + Cardinality({i \in 1..Len(label) : Utf8Width(label[i]) >= 2})
    + Cardinality({i \in 1..Len(label) : Utf8Width(label[i]) >= 3})
    + Cardinality({i \in 1..Len(label) : Utf8Width(label[i]) >= 4})

\* char::is_alphanumeric, on the chars of Alphabet and the ASCII ranges
is_alphanumeric(ch) ==
    \/ ch >= 48 /\ ch <= 57
    \/ ch >= 65 /\ ch <= 90
    \/ ch >= 97 /\ ch <= 122
    \/ ch = 233

\* the positions of sep in label, in increasing order
SepPositions(label, sep) ==
    LET IsSep(i) == label[i] = sep
    IN  SelectSeq([i \in 1..Len(label) |-> i], IsSep)

\* label.split('.'): the pieces between the seps, empty ones included
split(label, sep) ==
    LET at == SepPositions(label, sep)
    IN  [k \in 1..(Len(at) + 1) |->
            SubSeq(label,
                   (IF k = 1 THEN 0 ELSE at[k - 1]) + 1,
                   (IF k = Len(at) + 1 THEN Len(label) + 1 ELSE at[k]) - 1)]

\* the allow_dots = false branch with the length test off by one
host_label_ok_ge(label) ==
    IF label = <<>> \/ str_len(label) >= LabelMaxLen
    THEN [valid |-> FALSE, e |-> <<"host was too short or too long">>]
    ELSE IF label[1] = 45
    THEN [valid |-> FALSE, e |-> <<"cannot start with -">>]
    ELSE [valid |-> \A i \in 1..Len(label) : is_alphanumeric(label[i]) \/ label[i] = 45,
          e |-> <<>>]

\* the allow_dots = false branch: the verdict and what it reports
host_label_ok(label) ==
    IF label = <<>> \/ str_len(label) > LabelMaxLen
    THEN [valid |-> FALSE, e |-> <<"host was too short or too long">>]
    \* all() stops at the first char that fails; ('-', 0) is the first one tried
    ELSE IF label[1] = 45
    THEN [valid |-> FALSE, e |-> <<"cannot start with -">>]
    ELSE [valid |-> \A i \in 1..Len(label) : is_alphanumeric(label[i]) \/ label[i] = 45,
          e |-> <<>>]

\* the recursive call handing its own allow_dots on
recursive_allow_dots_same(allow_dots) == allow_dots

\* the allow_dots argument of the recursive call: is_valid_host_label(part, false, e)
recursive_allow_dots(allow_dots) == FALSE

\* an active call: its arguments, the parts its loop has still to visit, and
\* whether it is inside a recursive call
Frame(label, allow_dots) ==
    [label |-> label, allow_dots |-> allow_dots,
     parts |-> IF allow_dots THEN split(label, 46) ELSE <<>>,
     waiting |-> FALSE]

Top == hstack[Len(hstack)]
Caller == SubSeq(hstack, 1, Len(hstack) - 1)

\* the call on top of the stack returns value
HostReturn(value) ==
    /\ hstack' = Caller
    /\ hret' = value
    /\ hphase' = IF Len(hstack) = 1 THEN "done" ELSE "running"

\* is_valid_host_label(label, allow_dots, e) is called
HostCall ==
    /\ hphase = "idle"
    /\ \E label \in Labels, allow_dots \in BOOLEAN :
          /\ hlabel' = label
          /\ hdots' = allow_dots
          /\ hstack' = <<Frame(label, allow_dots)>>
    /\ hphase' = "running"
    /\ UNCHANGED <<hret, hdiag>>
    /\ UNCHANGED <<seqVars, taskVars, genVars>>

\* for part in label.split('.') { is_valid_host_label(part, false, e) .. }; true
HostIterate ==
    /\ hphase = "running"
    /\ Top.allow_dots /\ ~Top.waiting
    /\ IF Top.parts = <<>>
       THEN HostReturn(TRUE)
       ELSE /\ Len(hstack) < MaxHostDepth
            /\ hstack' = Append(
                   [hstack EXCEPT ![Len(hstack)] =
                       [@ EXCEPT !.parts = Tail(@), !.waiting = TRUE]],
                   Frame(Top.parts[1], recursive_allow_dots(Top.allow_dots)))
            /\ UNCHANGED <<hret, hphase>>
    /\ UNCHANGED <<hlabel, hdots, hdiag>>
    /\ UNCHANGED <<seqVars, taskVars, genVars>>

\* if !is_valid_host_label(part, false, e) { return false; }
HostAfterCall ==
    /\ hphase = "running"
    /\ Top.allow_dots /\ Top.waiting
    /\ IF ~hret
       THEN HostReturn(FALSE)
       ELSE /\ hstack' = [hstack EXCEPT ![Len(hstack)] = [@ EXCEPT !.waiting = FALSE]]
            /\ UNCHANGED <<hret, hphase>>
    /\ UNCHANGED <<hlabel, hdots, hdiag>>
    /\ UNCHANGED <<seqVars, taskVars, genVars>>

\* the allow_dots = false branch
HostCheck ==
    /\ hphase = "running"
    /\ ~Top.allow_dots
    /\ LET r == host_label_ok(Top.label) IN
          /\ HostReturn(r.valid)
          /\ hdiag' = hdiag \o r.e
    /\ UNCHANGED <<hlabel, hdots>>
    /\ UNCHANGED <<seqVars, taskVars, genVars>>

HostStep == HostIterate \/ HostAfterCall \/ HostCheck

NextHost == HostCall \/ HostIterate \/ HostAfterCall \/ HostCheck

\* one call of is_valid_host_label on a label and an allow_dots drawn from
\* Labels and BOOLEAN
SpecHost == Init /\ [][NextHost]_vars

(***************************************************************************)
(* Properties of is_valid_host_label (specification SpecHost).             *)
(***************************************************************************)
\* the rule for a label without dots
LabelRule(label) ==
    /\ label # <<>>
    /\ str_len(label) <= LabelMaxLen
    /\ label[1] # 45
    /\ \A i \in 1..Len(label) : is_alphanumeric(label[i]) \/ label[i] = 45

\* the positions that bound the parts of label: before it, its dots, after it
PartBounds(label) == {0, Len(label) + 1} \cup {i \in 1..Len(label) : label[i] = 46}

\* every part between two neighbouring bounds obeys the rule
DottedRule(label) ==
    \A a, b \in PartBounds(label) :
        (a < b /\ \A i \in (a + 1)..(b - 1) : label[i] # 46) =>
            LabelRule(SubSeq(label, a + 1, b - 1))

HasDot(label) == \E i \in 1..Len(label) : label[i] = 46

\* C12: is_valid_host_label(label, allow_dots) is true exactly when: without
\* allow_dots, the label is not empty, at most 63 long (str::len, UTF-8
\* bytes), does not start with '-' and holds only alphanumeric chars and
\* '-'; with allow_dots, every part between dots obeys that rule, so an
\* empty label, a leading, trailing or doubled dot make it invalid while the
\* whole may be longer than 63.
C12_HostLabelRule ==
    hphase = "done" =>
        /\ hret = (IF hdots THEN DottedRule(hlabel) ELSE LabelRule(hlabel))
        /\ (~hdots /\ HasDot(hlabel)) => ~hret
        /\ (hdots /\ hlabel = <<>>) => ~hret
        /\ (hdots /\ hlabel # <<>> /\ (hlabel[1] = 46 \/ hlabel[Len(hlabel)] = 46)) => ~hret
        /\ (hdots /\ \E i \in 1..(Len(hlabel) - 1) : hlabel[i] = 46 /\ hlabel[i + 1] = 46)
               => ~hret

C12_Witness ==
    /\ hphase = "done"
    /\ hdots
    /\ Len(hlabel) = 2 * LabelMaxLen + 1
    /\ hlabel[LabelMaxLen + 1] = 46
    /\ hret

\* what a call still has to do: three steps for each part not yet visited
\* (the recursive call, its check, its return) and the step it is at
RECURSIVE HostMeasure(_)
HostMeasure(stack) ==
    IF stack = <<>> THEN 0
    ELSE 3 * Len(stack[1].parts) + (IF stack[1].waiting THEN 2 ELSE 1)
         + HostMeasure(Tail(stack))

\* C13: a call of is_valid_host_label under way can always take its next
\* step (it neither panics nor waits), every step brings it nearer to its
\* return, so it terminates, and it returns a boolean; at most two calls are
\* ever active, the outer one and one recursive call, because the recursive
\* call passes allow_dots = false.
C13_TerminatesDepthOne ==
    /\ [](hphase = "running" =>
            /\ Len(hstack) \in 1..2
            /\ \A i \in 2..Len(hstack) : ~hstack[i].allow_dots
            /\ ENABLED HostStep)
    /\ [](hphase = "done" => hstack = <<>> /\ hret \in BOOLEAN)
    /\ [][hphase = "running" =>
            /\ HostMeasure(hstack') < HostMeasure(hstack)
            /\ hphase' \in {"running", "done"}]_vars

C13_Witness ==
    /\ hphase = "running"
    /\ hdots
    /\ Len(hstack) = 2
    /\ hstack[1].waiting /\ hstack[1].parts = <<>>
    /\ Len(split(hlabel, 46)) = 2
    /\ Len(hlabel) > LabelMaxLen

(***************************************************************************)
(* DefaultSdkGenerator (tools/sdk-sync/src/sync/gen.rs): the temp dir it   *)
(* shares with the GeneratedSdks it returns, and the retry loop of         *)
(* aws_sdk_assemble.                                                       *)
(***************************************************************************)
\* most GeneratedSdk values the model creates
MaxSdks == 2

\* gen.rs:268
max_attempts == 3

\* gen.rs:276
DaemonTimeout == "Timeout waiting to connect to the Gradle daemon"

\* a message is the sequence of its lines; str::contains, for a text of one line
Contains(message, text) == \E i \in 1..Len(message) : message[i] = text

NoResult == [kind |-> "none", message |-> <<>>]
AssembleOk == [kind |-> "ok", message |-> <<>>]
AssembleErr(message) == [kind |-> "err", message |-> message]

\* what one run of do_aws_sdk_assemble can return: Ok, the failure of the
\* gradle command with the daemon timeout in its output, with another
\* failure, with the timeout text in other letters, or the failure to start
\* the command
AssembleResults ==
    {AssembleOk,
     AssembleErr(<<"Failed to aws_sdk_assemble:", DaemonTimeout>>),
     AssembleErr(<<"Failed to aws_sdk_assemble:", "Compilation failed">>),
     AssembleErr(<<"Failed to aws_sdk_assemble:",
                   "timeout waiting to connect to the gradle daemon">>),
     AssembleErr(<<"No such file or directory">>)}

\* a retry of every failure
should_retry_any(n, message) == n < max_attempts

\* a retry without the limit of attempts
should_retry_unbounded(n, message) == Contains(message, DaemonTimeout)

\* let should_retry = attempt < max_attempts && error_message.contains(..)
should_retry(n, message) == n < max_attempts /\ Contains(message, DaemonTimeout)

\* a GeneratedSdk of generate_sdk that keeps no reference to the temp dir
generated_sdk_no_dir == [origin |-> "generate_sdk", holds |-> FALSE, alive |-> TRUE]

\* GeneratedSdk { path, _temp_dir: Some(self.temp_dir.clone()) }
generated_sdk == [origin |-> "generate_sdk", holds |-> TRUE, alive |-> TRUE]

\* GeneratedSdk::new: _temp_dir: None
new_sdk == [origin |-> "new", holds |-> FALSE, alive |-> TRUE]

\* drop of one Arc<TempDir>: the last one drops the TempDir, which removes
\* the directory unless the removal fails (TempDir's drop ignores the error)
ArcDrop ==
    /\ strong' = strong - 1
    /\ IF strong = 1
       THEN \E removed \in BOOLEAN : dirExists' = ~removed
       ELSE dirExists' = dirExists

\* Builder::build: the temp dir is created, then the clone and the checkout
\* can fail, which drops the TempDir
Build ==
    /\ gen = "none"
    /\ \E ok \in BOOLEAN :
          IF ok
          THEN gen' = "alive" /\ strong' = 1 /\ dirExists' = TRUE
          ELSE gen' = "failed" /\ strong' = 0 /\ dirExists' \in BOOLEAN
    /\ UNCHANGED <<sdks, gpc, attempt, runs, gresult>>
    /\ UNCHANGED <<seqVars, taskVars, hostVars>>

\* generate_sdk(&self) is called
GenerateSdk ==
    /\ gen = "alive" /\ gpc = "idle"
    /\ Len(sdks) < MaxSdks
    /\ gpc' = "copy_examples"
    /\ attempt' = 0
    /\ runs' = <<>>
    /\ gresult' = NoResult
    /\ UNCHANGED <<gen, strong, dirExists, sdks>>
    /\ UNCHANGED <<seqVars, taskVars, hostVars>>

\* self.copy_examples().context(here!())?; then aws_sdk_assemble starts with
\* attempt = 1
CopyExamples ==
    /\ gpc = "copy_examples"
    /\ \E ok \in BOOLEAN :
          IF ok
          THEN gpc' = "assemble" /\ attempt' = 1
          ELSE gpc' = "idle" /\ attempt' = attempt
    /\ UNCHANGED <<gen, strong, dirExists, sdks, runs, gresult>>
    /\ UNCHANGED <<seqVars, taskVars, hostVars>>

\* one turn of the loop of aws_sdk_assemble: do_aws_sdk_assemble(attempt),
\* then return or attempt += 1
Attempt ==
    /\ gpc = "assemble"
    /\ \E r \in AssembleResults :
          /\ runs' = Append(runs, [attempt |-> attempt, result |-> r])
          /\ IF r.kind = "ok"
             THEN gpc' = "assembled" /\ gresult' = AssembleOk /\ attempt' = attempt
             ELSE IF ~should_retry(attempt, r.message)
             THEN gpc' = "assembled" /\ gresult' = r /\ attempt' = attempt
             ELSE gpc' = "assemble" /\ gresult' = gresult /\ attempt' = attempt + 1
    /\ UNCHANGED <<gen, strong, dirExists, sdks>>
    /\ UNCHANGED <<seqVars, taskVars, hostVars>>

\* self.aws_sdk_assemble().context(here!())?; Ok(GeneratedSdk { .. })
FinishGenerate ==
    /\ gpc = "assembled"
    /\ gpc' = "idle"
    /\ IF gresult.kind = "ok"
       THEN /\ sdks' = Append(sdks, generated_sdk)
            /\ strong' = strong + (IF generated_sdk.holds THEN 1 ELSE 0)
       ELSE UNCHANGED <<sdks, strong>>
    /\ UNCHANGED <<gen, dirExists, attempt, runs, gresult>>
    /\ UNCHANGED <<seqVars, taskVars, hostVars>>

\* GeneratedSdk::new(path)
GeneratedSdkNew ==
    /\ Len(sdks) < MaxSdks
    /\ sdks' = Append(sdks, new_sdk)
    /\ UNCHANGED <<gen, strong, dirExists, gpc, attempt, runs, gresult>>
    /\ UNCHANGED <<seqVars, taskVars, hostVars>>

\* a GeneratedSdk is dropped, and with it the Arc it holds
DropSdk ==
    /\ \E i \in 1..Len(sdks) :
          /\ sdks[i].alive
          /\ sdks' = [sdks EXCEPT ![i].alive = FALSE]
          /\ IF sdks[i].holds THEN ArcDrop ELSE UNCHANGED <<strong, dirExists>>
    /\ UNCHANGED <<gen, gpc, attempt, runs, gresult>>
    /\ UNCHANGED <<seqVars, taskVars, hostVars>>

\* the DefaultSdkGenerator is dropped; generate_sdk borrows it, so not
\* during a call
DropGenerator ==
    /\ gen = "alive" /\ gpc = "idle"
    /\ gen' = "dropped"
    /\ ArcDrop
    /\ UNCHANGED <<sdks, gpc, attempt, runs, gresult>>
    /\ UNCHANGED <<seqVars, taskVars, hostVars>>

NextGen ==
    \/ Build
    \/ GenerateSdk
    \/ CopyExamples
    \/ Attempt
    \/ FinishGenerate
    \/ GeneratedSdkNew
    \/ DropSdk
    \/ DropGenerator

\* a generator is built, generate_sdk is called on it any number of times,
\* and it and the GeneratedSdks are dropped in any order
SpecGen == Init /\ [][NextGen]_vars

(***************************************************************************)
(* Properties of DefaultSdkGenerator (specification SpecGen).              *)
(***************************************************************************)
\* the run failed with the daemon timeout in its message
TimedOut(run) ==
    run.result.kind = "err" /\ Contains(run.result.message, DaemonTimeout)

\* C14: when every run of do_aws_sdk_assemble fails with the Gradle daemon
\* timeout, aws_sdk_assemble returns the error after the first run and three
\* re-runs.
C14_ThreeRetriesAfterFirstRun ==
    (/\ gpc = "assembled"
     /\ gresult.kind = "err"
     /\ \A i \in 1..Len(runs) : TimedOut(runs[i]))
        => Len(runs) = 1 + 3

\* something that refers to the temp dir is alive: the generator or a
\* GeneratedSdk that generate_sdk returned
HoldersAlive ==
    \/ gen = "alive"
    \/ \E i \in 1..Len(sdks) : sdks[i].origin = "generate_sdk" /\ sdks[i].alive

\* C15: while the generator or a GeneratedSdk returned by generate_sdk is
\* alive the temp dir exists, and a step removes it only when none of them
\* is left, whatever the order of the drops; a GeneratedSdk of
\* GeneratedSdk::new holds no temp dir, and neither making nor dropping it
\* changes the reference count or the directory.
C15_TempDirOutlivesHolders ==
    /\ [](HoldersAlive => dirExists)
    /\ [](strong = (IF gen = "alive" THEN 1 ELSE 0)
                   + Cardinality({i \in 1..Len(sdks) :
                        sdks[i].origin = "generate_sdk" /\ sdks[i].alive}))
    /\ [](\A i \in 1..Len(sdks) : sdks[i].origin = "new" => ~sdks[i].holds)
    /\ [][(dirExists /\ ~dirExists') => ~HoldersAlive']_vars
    /\ [][\A i \in 1..Len(sdks) :
            (sdks[i].origin = "new" /\ sdks'[i].alive # sdks[i].alive) =>
                (strong' = strong /\ dirExists' = dirExists)]_vars
    /\ [][(Len(sdks') > Len(sdks) /\ sdks'[Len(sdks')].origin = "new") =>
                (strong' = strong /\ dirExists' = dirExists)]_vars

C15_Witness ==
    /\ gen = "dropped"
    /\ Len(sdks) = 2
    /\ sdks[1].origin = "generate_sdk" /\ ~sdks[1].alive
    /\ sdks[2].origin = "generate_sdk" /\ sdks[2].alive
    /\ strong = 1
    /\ dirExists

\* C16: a run of do_aws_sdk_assemble is followed by another only if it
\* failed with the daemon timeout: after Ok and after any other error
\* aws_sdk_assemble returns at once, also when attempts remain; and what it
\* returns is the result of the last run.
C16_RetriesOnlyDaemonTimeouts ==
    /\ \A i \in 1..(Len(runs) - 1) : TimedOut(runs[i])
    /\ (gpc = "assemble" /\ runs # <<>>) => TimedOut(runs[Len(runs)])
    /\ gpc = "assembled" =>
          /\ runs # <<>>
          /\ gresult = runs[Len(runs)].result

C16_Witness ==
    /\ gpc = "assembled"
    /\ Len(runs) = 2
    /\ attempt < max_attempts
    /\ gresult.kind = "err"
    /\ gresult.message[Len(gresult.message)] = "timeout waiting to connect to the gradle daemon"

\* C17: aws_sdk_assemble runs do_aws_sdk_assemble at least once and at most
\* max_attempts = 3 times, with the attempt numbers 1, 2, 3 in this order;
\* while the loop runs its next turn can be taken, and every turn either
\* returns or raises attempt, which never passes max_attempts, so the loop
\* ends with Ok or Err whatever the runs return.
C17_AttemptsCountedAndBounded ==
    /\ [](/\ Len(runs) <= max_attempts
          /\ \A i \in 1..Len(runs) : runs[i].attempt = i)
    /\ [](gpc = "assembled" => (Len(runs) >= 1 /\ gresult.kind \in {"ok", "err"}))
    /\ [](gpc = "assemble" =>
            /\ attempt = Len(runs) + 1
            /\ attempt <= max_attempts
            /\ ENABLED Attempt)
    /\ [][gpc = "assemble" =>
            \/ UNCHANGED <<gpc, attempt, runs>>
            \/ gpc' = "assembled" /\ Len(runs') = Len(runs) + 1
            \/ gpc' = "assemble" /\ attempt' = attempt + 1 /\ Len(runs') = Len(runs) + 1]_vars

C17_Witness ==
    /\ gpc = "assembled"
    /\ Len(runs) = max_attempts
    /\ gresult.kind = "ok"
    /\ \A i \in 1..(max_attempts - 1) : TimedOut(runs[i])

====
